---- MODULE Spec2Model ----
(***************************************************************************)
(* A model of vicsek/model.py: the VicsekModel object, its property        *)
(* setters (with the expand_to_array decorator), init_state, step, evolve  *)
(* and evolve_ensemble.                                                    *)
(*                                                                         *)
(* Numbers.  Real quantities are held in fixed point: a position           *)
(* coordinate or a density x is the integer x * Unit.  Angles are held in  *)
(* quarter turns (pi/2), so that cos and sin are exact; arctan2 is rounded *)
(* to the nearest quarter turn.  Headings are not normalised, as in the    *)
(* code.  numpy arrays are sequences (1-D) and sequences of rows (2-D),    *)
(* and every array operation carries numpy's broadcasting rule, including  *)
(* the exception it raises on incompatible shapes.                         *)
(*                                                                         *)
(* An exception is the field `raised` of an operation's outcome; the       *)
(* object is left as it was at the raising line.                           *)
(***************************************************************************)
EXTENDS Integers, Sequences, FiniteSets, TLC

VARIABLES length, density, speed, noise, radius, weights,
          positions, headings, current_step, trajectory, rng, reset_flag,
          call, raised, pbar, result, history

obj == <<length, density, speed, noise, radius, weights,
         positions, headings, current_step, trajectory, rng, reset_flag>>

vars == <<length, density, speed, noise, radius, weights,
          positions, headings, current_step, trajectory, rng, reset_flag,
          call, raised, pbar, result, history>>

(***************************************************************************)
(* Bounds of the model.                                                    *)
(***************************************************************************)
\* current_step never exceeds MaxStep (guards of Step and Evolve)
MaxStep == 2
\* the `steps` argument of evolve_ensemble ranges over 0..MaxSteps
MaxSteps == 1
\* the `interval` argument of evolve ranges over 1..MaxInterval
MaxInterval == 2
\* the `ensemble_size` argument ranges over 0..MaxEnsemble
MaxEnsemble == 2

\* fixed-point resolution: the real x is the integer x * Unit
Unit == 2 * 2
\* a full turn (2 pi) in quarter turns
Turn == 2 * 2

Lengths == {2, 3}
\* densities 1/4 and 1/2, in fixed point
Densities == {1, 2}

None == "none"

(***************************************************************************)
(* Inputs of the setters: a number (iter = FALSE, items = <<v>>) or an     *)
(* iterable (iter = TRUE).                                                 *)
(***************************************************************************)
Scalar(v) == [iter |-> FALSE, items |-> <<v>>]
Iter(s) == [iter |-> TRUE, items |-> s]
NoInput == [iter |-> FALSE, items |-> <<>>]

SpeedInputs == {Scalar(1), Scalar(3), Iter(<<3, 1>>), Iter(<<1, 2, 3, 4, 5, 6, 7>>)}
NoiseInputs == {Scalar(0), Scalar(4), Iter(<<4, 2, 3, 1>>), Iter(<<>>)}
RadiusInputs == {Scalar(1), Scalar(2), Iter(<<2, 1>>), Iter(<<1, 2, 1>>)}
WeightsInputs == {Scalar(1), Iter(<<2, 1>>), Scalar(-1), Iter(<<1, -1>>),
                  Iter(<<0, 1, 1>>)}

(***************************************************************************)
(* numpy helpers.                                                          *)
(***************************************************************************)
Abs(x) == IF x < 0 THEN -x ELSE x

\* two dimensions are compatible when equal or when one of them is 1
bc_ok(a, b) == a = b \/ a = 1 \/ b = 1
bc_len(a, b) == IF a = 1 THEN b ELSE a
\* element i of a 1-D array broadcast along an axis
at(v, i) == v[IF Len(v) = 1 THEN 1 ELSE i]

RECURSIVE seq_sum(_)
seq_sum(s) == IF s = <<>> THEN 0 ELSE s[1] + seq_sum(Tail(s))

cos(a) == CASE a % 4 = 0 -> 1 [] a % 4 = 1 -> 0 [] a % 4 = 2 -> -1 [] OTHER -> 0
sin(a) == CASE a % 4 = 0 -> 0 [] a % 4 = 1 -> 1 [] a % 4 = 2 -> 0 [] OTHER -> -1

\* np.arctan2 in (-pi, pi], to the nearest quarter turn; arctan2(0, 0) = 0
arctan2(y, x) ==
    IF x = 0 /\ y = 0 THEN 0
    ELSE IF Abs(x) >= Abs(y) THEN (IF x > 0 THEN 0 ELSE 2)
    ELSE (IF y > 0 THEN 1 ELSE -1)

\* an array given by its elements, evaluated once
ndarray(f) == <<>> \o f

np_full(n, v) == ndarray([i \in 1..n |-> v])
\* array[: len(new)] = new
slice_assign(array, new) ==
    ndarray([i \in 1..Len(array) |-> IF i <= Len(new) THEN new[i] ELSE array[i]])
np_flip_id(array) == array
np_flip(array) == ndarray([i \in 1..Len(array) |-> array[Len(array) + 1 - i]])

(***************************************************************************)
(* The random generator: a linear congruential generator of period 16      *)
(* stands for numpy's PCG64.  random() returns u in [0, 1) as the integer  *)
(* u * Unit.                                                               *)
(***************************************************************************)
default_rng(seed) == seed % 16
rng_next(x) == (5 * x + 3) % 16
rng_out(x) == x \div 4

\* the seed of init_state(reproducible=True)
ReproducibleSeed == 123456
\* the seeds that fresh entropy (seed=None) may give
FreshSeeds == {6, 9}

\* the draw u put in front of the later draws r = <<draws, generator>>
rng_cons(u, r) == <<<<u>> \o r[1], r[2]>>

RECURSIVE rng_random(_, _)
\* k draws: <<the draws, the generator after them>>
rng_random(x, k) ==
    IF k = 0 THEN <<<<>>, x>>
    ELSE rng_cons(rng_out(rng_next(x)), rng_random(rng_next(x), k - 1))

(***************************************************************************)
(* The object.  `self` is a record of the instance attributes.             *)
(***************************************************************************)
Self ==
    [length |-> length, density |-> density, speed |-> speed, noise |-> noise,
     radius |-> radius, weights |-> weights, positions |-> positions,
     headings |-> headings, current_step |-> current_step,
     trajectory |-> trajectory, rng |-> rng, reset_flag |-> reset_flag]

\* the instance before __init__ has set anything
Blank ==
    [length |-> 0, density |-> 0, speed |-> <<>>, noise |-> <<>>,
     radius |-> <<>>, weights |-> <<>>, positions |-> <<>>, headings |-> <<>>,
     current_step |-> 0, trajectory |-> <<>>, rng |-> 0, reset_flag |-> FALSE]

Ok(self) == [self |-> self, raised |-> None]
Raise(self, e) == [self |-> self, raised |-> e]

\* int(self._density * self.length ** 2)
particles(self) == (self.density * self.length * self.length) \div Unit

(***************************************************************************)
(* expand_to_array: the array handed to the wrapped setter, or the         *)
(* exception raised before it is called.                                   *)
(***************************************************************************)
expand_to_array(self, new) ==
    IF Len(new.items) > particles(self)
    THEN [raised |-> "ValueError", array |-> <<>>]
    ELSE IF new.items = <<>> THEN [raised |-> "IndexError", array |-> <<>>]
    ELSE [raised |-> None,
          array |-> np_flip(slice_assign(
                        np_full(particles(self), new.items[Len(new.items)]),
                        new.items))]

\* the wrapped setters, called with the outcome e of expand_to_array
speed_setter(self, e) ==
    IF e.raised # None THEN Raise(self, e.raised)
    ELSE Ok([self EXCEPT !.speed = e.array])

radius_setter(self, e) ==
    IF e.raised # None THEN Raise(self, e.raised)
    ELSE Ok([self EXCEPT !.radius = e.array])

noise_setter(self, e) ==
    IF e.raised # None THEN Raise(self, e.raised)
    ELSE Ok([self EXCEPT !.noise = e.array])

\* a weights setter that stores the array before it looks at the signs
weights_setter_unchecked(self, e) ==
    IF e.raised # None THEN Raise(self, e.raised)
    ELSE IF \E i \in 1..Len(e.array) : e.array[i] < 0
    THEN Raise([self EXCEPT !.weights = e.array], "ValueError")
    ELSE Ok([self EXCEPT !.weights = e.array])

weights_setter(self, e) ==
    IF e.raised # None THEN Raise(self, e.raised)
    ELSE IF \E i \in 1..Len(e.array) : e.array[i] < 0
    THEN Raise(self, "ValueError")
    ELSE Ok([self EXCEPT !.weights = e.array])

\* model.speed = new, and so on
set_speed(self, new) == speed_setter(self, expand_to_array(self, new))
set_radius(self, new) == radius_setter(self, expand_to_array(self, new))
set_noise(self, new) == noise_setter(self, expand_to_array(self, new))
set_weights(self, new) == weights_setter(self, expand_to_array(self, new))

(***************************************************************************)
(* Derived views.                                                          *)
(***************************************************************************)
\* np.expand_dims(speed, 1) * np.stack((cos(headings), sin(headings)), axis=1):
\* shapes (S, 1) and (H, 2) broadcast to (bc(S, H), 2), or ValueError
velocities_of(spd, hdg) ==
    IF ~bc_ok(Len(spd), Len(hdg)) THEN [raised |-> "ValueError", value |-> <<>>]
    ELSE [raised |-> None,
          value |-> ndarray([i \in 1..bc_len(Len(spd), Len(hdg)) |->
                        <<at(spd, i) * cos(at(hdg, i)),
                          at(spd, i) * sin(at(hdg, i))>>])]

velocities(self) == velocities_of(self.speed, self.headings)

\* the sum of column c of a 2-D array
column_sum(rows, c) == seq_sum(ndarray([i \in 1..Len(rows) |-> rows[i][c]]))
np_square(x) == x * x

\* sqrt(square(v.mean(axis=0)).sum()) / spd.mean() for the velocities v, held
\* as the fraction <<num, den>> that is its square
mean_velocity(spd, v) ==
    IF v.raised # None THEN [raised |-> v.raised, value |-> <<0, 0>>]
    ELSE [raised |-> None,
          value |-> <<(np_square(column_sum(v.value, 1))
                          + np_square(column_sum(v.value, 2)))
                        * np_square(Len(spd)),
                      np_square(Len(v.value)) * np_square(seq_sum(spd))>>]

order_parameter(self) == mean_velocity(self.speed, velocities(self))

(***************************************************************************)
(* init_state, line by line.  `entropy` is the seed the system gives when  *)
(* seed=None.                                                              *)
(***************************************************************************)
seed_rng(self, seed) == [self EXCEPT !.rng = default_rng(seed)]

\* self._trajectory = {0: self.order_parameter}; self._reset_flag = True
init_trajectory(self, op) ==
    IF op.raised # None THEN Raise(self, op.raised)
    ELSE Ok([self EXCEPT !.trajectory = <<<<0, op.value>>>>,
                         !.reset_flag = TRUE])

\* self._headings = rng.random(size=particles) * 2 * pi; self._current_step = 0
init_headings(self, d) ==
    [self EXCEPT
       !.rng = d[2],
       !.headings = ndarray([i \in 1..Len(d[1]) |-> (d[1][i] * Turn) \div Unit]),
       !.current_step = 0]

\* self._positions = rng.random((particles, 2)) * length
init_positions(self, d) ==
    [self EXCEPT
       !.rng = d[2],
       !.positions = ndarray([i \in 1..(Len(d[1]) \div 2) |->
                        <<d[1][2 * i - 1] * self.length,
                          d[1][2 * i] * self.length>>])]

init_from_headings(self) == init_trajectory(self, order_parameter(self))

init_from_positions(self) ==
    init_from_headings(init_headings(self, rng_random(self.rng, particles(self))))

init_from_seed(self) ==
    init_from_positions(
        init_positions(self, rng_random(self.rng, 2 * particles(self))))

init_state(self, reproducible, entropy) ==
    init_from_seed(seed_rng(self, IF reproducible THEN ReproducibleSeed ELSE entropy))

\* init_state() if the object has been initialised before
reset(self, entropy) ==
    IF self.reset_flag THEN init_state(self, FALSE, entropy) ELSE Ok(self)

set_length(self, new, entropy) == reset([self EXCEPT !.length = new], entropy)

set_density(self, new, entropy) == reset([self EXCEPT !.density = new], entropy)

(***************************************************************************)
(* step, line by line.                                                     *)
(***************************************************************************)
\* squareform(pdist(positions)): the P x P matrix of Euclidean distances,
\* held as squared distances in fixed point (1 x 1 zero for a single point)
distance_matrix(pos) ==
    ndarray([i \in 1..Len(pos) |->
        ndarray([j \in 1..Len(pos) |->
            (pos[i][1] - pos[j][1]) * (pos[i][1] - pos[j][1])
          + (pos[i][2] - pos[j][2]) * (pos[i][2] - pos[j][2])])])

\* d < r for a distance d >= 0 given by its square d2 (fixed point) and a radius r
less_than(d2, r) == r > 0 /\ d2 < (r * Unit) * (r * Unit)

\* the comparison with the radius of the row particle
adjacency_by_row(dm, rad) ==
    IF ~bc_ok(Len(dm), Len(rad)) THEN [raised |-> "ValueError", value |-> <<>>]
    ELSE [raised |-> None,
          value |-> ndarray([i \in 1..Len(dm) |->
                        ndarray([j \in 1..bc_len(Len(dm), Len(rad)) |->
                            less_than(at(dm[i], j), at(rad, i))])])]

\* distance_matrix < self.radius: shapes (P, P) and (R,) broadcast along the
\* last axis, so column j is compared with radius[j]
adjacency_matrix(dm, rad) ==
    IF ~bc_ok(Len(dm), Len(rad)) THEN [raised |-> "ValueError", value |-> <<>>]
    ELSE [raised |-> None,
          value |-> ndarray([i \in 1..Len(dm) |->
                        ndarray([j \in 1..bc_len(Len(dm), Len(rad)) |->
                            less_than(at(dm[i], j), at(rad, j))])])]

\* np.ma.array(np.broadcast_to(headings, (n, n)), mask=~adjacency_matrix):
\* broadcast_to raises ValueError unless headings has n entries or one; a mask
\* of another shape is resized (one element), reshaped (same size) or refused
headings_matrix(hdg, n, adj) ==
    LET P == Len(adj)
        C == IF P = 0 THEN 0 ELSE Len(adj[1])
    IN  IF ~(Len(hdg) = n \/ Len(hdg) = 1)
        THEN [raised |-> "ValueError", data |-> <<>>, mask |-> <<>>]
        ELSE IF ~((P = n /\ C = n) \/ P * C = 1 \/ P * C = n * n)
        THEN [raised |-> "MaskError", data |-> <<>>, mask |-> <<>>]
        ELSE [raised |-> None,
              data |-> ndarray([i \in 1..n |-> ndarray([j \in 1..n |-> at(hdg, j)])]),
              mask |-> ndarray([i \in 1..n |-> ndarray([j \in 1..n |->
                          IF P = n /\ C = n THEN ~adj[i][j]
                          ELSE IF P * C = 1 THEN ~adj[1][1]
                          ELSE LET k == (i - 1) * n + (j - 1)
                               IN  ~adj[(k \div C) + 1][(k % C) + 1]])])]

\* np.sin or np.cos, by name
ufunc(name, a) == IF name = "sin" THEN sin(a) ELSE cos(a)

\* (self.weights * F(headings_matrix)).sum(axis=1), F being np.sin or np.cos:
\* masked entries do not count
weighted_sum(w, hm, F) ==
    LET n == Len(hm.data)
    IN  IF ~bc_ok(n, Len(w)) THEN [raised |-> "ValueError", value |-> <<>>]
        ELSE [raised |-> None,
              value |-> ndarray([i \in 1..n |->
                  seq_sum(ndarray([j \in 1..bc_len(n, Len(w)) |->
                      LET c == IF n = 1 THEN 1 ELSE j
                      IN  IF hm.mask[i][c] THEN 0
                          ELSE at(w, j) * ufunc(F, hm.data[i][c])]))])]

\* (u - 0.5) * noise for the draw u = r / Unit, in quarter turns
noise_term(r, eta) == ((2 * r - Unit) * eta) \div (2 * Unit)

\* np.arctan2(sum_of_sines, sum_of_cosines) + (rng.random(n) - 0.5) * noise
new_headings(ss, sc, draws, eta) ==
    IF ~bc_ok(Len(draws), Len(eta)) THEN [raised |-> "ValueError", value |-> <<>>]
    ELSE [raised |-> None,
          value |-> ndarray([i \in 1..bc_len(Len(draws), Len(eta)) |->
                        arctan2(at(ss, i), at(sc, i))
                      + noise_term(at(draws, i), at(eta, i))])]

\* self._positions += velocities, in place: the right-hand side must
\* broadcast to the shape positions already has
advance(pos, vel) ==
    IF ~(Len(vel) = Len(pos) \/ Len(vel) = 1)
    THEN [raised |-> "ValueError", value |-> pos]
    ELSE [raised |-> None,
          value |-> ndarray([i \in 1..Len(pos) |->
                        <<pos[i][1] + at(vel, i)[1] * Unit,
                          pos[i][2] + at(vel, i)[2] * Unit>>])]

\* a remainder with the sign of the dividend (C fmod), as a wrong wrap
fmod(x, y) == IF x >= 0 THEN x % y ELSE -((-x) % y)
wrap_fmod(pos, len) ==
    ndarray([i \in 1..Len(pos) |->
        <<fmod(pos[i][1], len * Unit), fmod(pos[i][2], len * Unit)>>])

\* np.mod(self._positions, self.length, out=self._positions)
wrap(pos, len) ==
    ndarray([i \in 1..Len(pos) |->
        <<pos[i][1] % (len * Unit), pos[i][2] % (len * Unit)>>])

\* np.mod(...); self._current_step += 1
step_wrap(self, moved) ==
    IF moved.raised # None THEN Raise(self, moved.raised)
    ELSE Ok([self EXCEPT !.positions = wrap(moved.value, self.length),
                         !.current_step = self.current_step + 1])

\* self._positions += the velocities v
step_advance(self, v) ==
    IF v.raised # None THEN Raise(self, v.raised)
    ELSE step_wrap(self, advance(self.positions, v.value))

step_positions(self) == step_advance(self, velocities(self))

\* self._headings = nh, the generator having been advanced already
step_assign(self, nh) ==
    IF nh.raised # None THEN Raise(self, nh.raised)
    ELSE step_positions([self EXCEPT !.headings = nh.value])

\* the new headings from the sums and the draws d = <<draws, generator>>
step_headings(self, sum_of_sines, sum_of_cosines, d) ==
    IF sum_of_sines.raised # None THEN Raise(self, sum_of_sines.raised)
    ELSE step_assign([self EXCEPT !.rng = d[2]],
                     new_headings(sum_of_sines.value, sum_of_cosines.value,
                                  d[1], self.noise))

step_sums(self, hm) ==
    IF hm.raised # None THEN Raise(self, hm.raised)
    ELSE step_headings(self, weighted_sum(self.weights, hm, "sin"),
                       weighted_sum(self.weights, hm, "cos"),
                       rng_random(self.rng, particles(self)))

step_mask(self, adj) ==
    IF adj.raised # None THEN Raise(self, adj.raised)
    ELSE step_sums(self, headings_matrix(self.headings, particles(self), adj.value))

step(self) ==
    step_mask(self, adjacency_matrix(distance_matrix(self.positions), self.radius))

(***************************************************************************)
(* evolve and evolve_ensemble.  An outcome also carries what the call did  *)
(* to its progress bar (`updates`: the number of pbar.update() calls) and  *)
(* the trajectory keys it wrote, in order (`wrote`).                       *)
(***************************************************************************)
\* evolve's default `interval`
DefaultInterval == 10

\* self._trajectory[key] = value on a dict that keeps insertion order
dict_set(d, key, value) ==
    IF \E i \in 1..Len(d) : d[i][1] = key
    THEN ndarray([i \in 1..Len(d) |-> IF d[i][1] = key THEN <<key, value>> ELSE d[i]])
    ELSE Append(d, <<key, value>>)

Outcome(self, e, updates, wrote) ==
    [self |-> self, raised |-> e, updates |-> updates, wrote |-> wrote]

\* the condition under which a tracked tick records the order parameter
records_always(step_no, interval) == TRUE
records(step_no, interval) == step_no % interval = 0

RECURSIVE tracked_loop(_, _, _, _, _, _)

\* self.trajectory[self.current_step] = op; pbar.update(); the ticks left
tracked_record(self, op, steps, interval, sink, updates, wrote) ==
    IF op.raised # None THEN Outcome(self, op.raised, updates, wrote)
    ELSE tracked_loop(
           [self EXCEPT !.trajectory = dict_set(@, self.current_step, op.value)],
           steps - 1, interval, sink, IF sink THEN updates + 1 ELSE updates,
           Append(wrote, self.current_step))

\* the rest of a tick whose step() ended as s
tracked_tick(s, steps, interval, sink, updates, wrote) ==
    IF s.raised # None THEN Outcome(s.self, s.raised, updates, wrote)
    ELSE IF records(s.self.current_step, interval)
    THEN tracked_record(s.self, order_parameter(s.self), steps, interval, sink,
                        updates, wrote)
    ELSE tracked_loop(s.self, steps - 1, interval, sink,
                      IF sink THEN updates + 1 ELSE updates, wrote)

\* for _ in range(steps): step(); record; pbar.update()
tracked_loop(self, steps, interval, sink, updates, wrote) ==
    IF steps <= 0 THEN Outcome(self, None, updates, wrote)
    ELSE tracked_tick(step(self), steps, interval, sink, updates, wrote)

RECURSIVE untracked_loop(_, _)

untracked_tick(s, steps) ==
    IF s.raised # None THEN s ELSE untracked_loop(s.self, steps - 1)

\* for _ in range(steps): step()
untracked_loop(self, steps) ==
    IF steps <= 0 THEN Ok(self) ELSE untracked_tick(step(self), steps)

\* the untracked branch once its loop has ended as r: pbar.update() follows
\* the loop
untracked_end(r, sink) ==
    IF r.raised # None THEN Outcome(r.self, r.raised, 0, <<>>)
    ELSE Outcome(r.self, None, IF sink THEN 1 ELSE 0, <<>>)

evolve(self, steps, track_order_parameter, interval, sink) ==
    IF track_order_parameter
    THEN tracked_loop(self, steps, interval, sink, 0, <<>>)
    ELSE untracked_end(untracked_loop(self, steps), sink)

\* the values evolve_ensemble returns
NaN == [kind |-> "nan", of |-> <<>>]
np_mean(a) == IF Len(a) = 0 THEN NaN ELSE [kind |-> "mean", of |-> a]
\* the variance with ddof degrees of freedom removed: not-a-number (and a
\* RuntimeWarning, no exception) when len(a) - ddof <= 0
np_var(a, ddof) == IF Len(a) - ddof <= 0 THEN NaN ELSE [kind |-> "var", of |-> a]

ensemble_return_checked(order_parameters) ==
    IF Len(order_parameters) - 1 <= 0
    THEN [raised |-> "ZeroDivisionError", value |-> <<>>]
    ELSE [raised |-> None,
          value |-> <<np_mean(order_parameters), np_var(order_parameters, 1)>>]

\* return order_parameters.mean(), order_parameters.var(ddof=1)
ensemble_return(order_parameters) ==
    [raised |-> None,
     value |-> <<np_mean(order_parameters), np_var(order_parameters, 1)>>]

EnsembleOutcome(self, e, updates, value, reinit) ==
    [self |-> self, raised |-> e, updates |-> updates, value |-> value,
     reinit |-> reinit]

\* the return statement, with the progress and the object it ends with
ensemble_end(self, r, updates, reinit) ==
    EnsembleOutcome(self, r.raised, updates, r.value, reinit)

RECURSIVE ensemble_loop(_, _, _, _, _, _)

\* order_parameters[i] = op, and the replicas left
ensemble_sample(self, op, steps, seeds, order_parameters, updates) ==
    IF op.raised # None
    THEN EnsembleOutcome(self, op.raised, updates, <<>>, TRUE)
    ELSE ensemble_loop(self, steps, Tail(seeds),
                       Append(order_parameters, op.value), updates, TRUE)

\* the rest of a replica whose evolve ended as e
ensemble_evolved(e, steps, seeds, order_parameters, updates) ==
    IF e.raised # None
    THEN EnsembleOutcome(e.self, e.raised, updates + e.updates, <<>>, TRUE)
    ELSE ensemble_sample(e.self, order_parameter(e.self), steps, seeds,
                         order_parameters, updates + e.updates)

\* the rest of a replica whose init_state ended as i
ensemble_replica(i, steps, seeds, order_parameters, updates, reinit) ==
    IF i.raised # None
    THEN EnsembleOutcome(i.self, i.raised, updates, <<>>, reinit)
    ELSE ensemble_evolved(evolve(i.self, steps, FALSE, DefaultInterval, TRUE),
                          steps, seeds, order_parameters, updates)

\* for i in range(ensemble_size): init_state(); evolve(); sample.  `seeds`
\* are the seeds of the replicas still to run; reinit tells whether an
\* init_state of this call has replaced the trajectory.
ensemble_loop(self, steps, seeds, order_parameters, updates, reinit) ==
    IF seeds = <<>>
    THEN ensemble_end(self, ensemble_return(order_parameters), updates, reinit)
    ELSE ensemble_replica(init_state(self, FALSE, Head(seeds)), steps, seeds,
                          order_parameters, updates, reinit)

evolve_ensemble(self, steps, seeds) ==
    ensemble_loop(self, steps, seeds, <<>>, 0, FALSE)

(***************************************************************************)
(* __init__: the six setters in order, then init_state.  Each stage takes  *)
(* the outcome r of the assignments before it.                             *)
(***************************************************************************)
construct_state(r, entropy) ==
    IF r.raised # None THEN r ELSE init_state(r.self, FALSE, entropy)

construct_weights(r, wts, entropy) ==
    IF r.raised # None THEN r
    ELSE construct_state(set_weights(r.self, wts), entropy)

construct_radius(r, rad, wts, entropy) ==
    IF r.raised # None THEN r
    ELSE construct_weights(set_radius(r.self, rad), wts, entropy)

construct_noise(r, nse, rad, wts, entropy) ==
    IF r.raised # None THEN r
    ELSE construct_radius(set_noise(r.self, nse), rad, wts, entropy)

construct_speed(r, spd, nse, rad, wts, entropy) ==
    IF r.raised # None THEN r
    ELSE construct_noise(set_speed(r.self, spd), nse, rad, wts, entropy)

construct_density(r, dens, spd, nse, rad, wts, entropy) ==
    IF r.raised # None THEN r
    ELSE construct_speed(set_density(r.self, dens, entropy), spd, nse, rad, wts,
                         entropy)

construct(len, dens, spd, nse, rad, wts, entropy) ==
    construct_density(set_length(Blank, len, entropy), dens, spd, nse, rad, wts,
                      entropy)

(***************************************************************************)
(* The state machine.  `call` is the latest call and its arguments,        *)
(* `raised` the exception it ended with, `pbar` the number of update()     *)
(* calls its progress bar received, `result` what it returned.  `history`  *)
(* is a history variable about the current trajectory dict: the log of     *)
(* <<key, interval>> written by tracking evolve calls since the dict was   *)
(* created, and the highest current_step a tracked tick has reached since  *)
(* then.                                                                   *)
(***************************************************************************)
NoCall ==
    [op |-> "__init__", new |-> NoInput, value |-> 0, steps |-> 0, track |-> FALSE,
     interval |-> 1, sink |-> FALSE, size |-> 0, reproducible |-> FALSE]

FreshHistory == [recorded |-> <<>>, high |-> 0]

Max(a, b) == IF a >= b THEN a ELSE b

Commit(self) ==
    /\ length' = self.length
    /\ density' = self.density
    /\ speed' = self.speed
    /\ noise' = self.noise
    /\ radius' = self.radius
    /\ weights' = self.weights
    /\ positions' = self.positions
    /\ headings' = self.headings
    /\ current_step' = self.current_step
    /\ trajectory' = self.trajectory
    /\ rng' = self.rng
    /\ reset_flag' = self.reset_flag

\* the history after a call that ran init_state and ended with `e`: the
\* trajectory is replaced on its last line only
AfterInit(e) == IF e = None THEN FreshHistory ELSE history

\* the object after VicsekModel(len, dens, spd, nse, rad, wts)
Constructed(lens, denss, spds, nses, rads, wtss) ==
    \E len \in lens, dens \in denss, spd \in spds, nse \in nses,
       rad \in rads, wts \in wtss, entropy \in FreshSeeds :
        \E r \in {construct(len, dens, spd, nse, rad, wts, entropy)} :
        /\ r.raised = None
        /\ length = r.self.length
        /\ density = r.self.density
        /\ speed = r.self.speed
        /\ noise = r.self.noise
        /\ radius = r.self.radius
        /\ weights = r.self.weights
        /\ positions = r.self.positions
        /\ headings = r.self.headings
        /\ current_step = r.self.current_step
        /\ trajectory = r.self.trajectory
        /\ rng = r.self.rng
        /\ reset_flag = r.self.reset_flag
        /\ call = NoCall
        /\ raised = None
        /\ pbar = 0
        /\ result = <<>>
        /\ history = FreshHistory

SetLength ==
    \E new \in Lengths, entropy \in FreshSeeds :
        \E r \in {set_length(Self, new, entropy)} :
        /\ Commit(r.self)
        /\ call' = [NoCall EXCEPT !.op = "length", !.value = new]
        /\ raised' = r.raised
        /\ pbar' = 0
        /\ result' = <<>>
        /\ history' = AfterInit(r.raised)

SetDensity ==
    \E new \in Densities, entropy \in FreshSeeds :
        \E r \in {set_density(Self, new, entropy)} :
        /\ Commit(r.self)
        /\ call' = [NoCall EXCEPT !.op = "density", !.value = new]
        /\ raised' = r.raised
        /\ pbar' = 0
        /\ result' = <<>>
        /\ history' = AfterInit(r.raised)

Setter(name, r, new) ==
    /\ Commit(r.self)
    /\ call' = [NoCall EXCEPT !.op = name, !.new = new]
    /\ raised' = r.raised
    /\ pbar' = 0
    /\ result' = <<>>
    /\ UNCHANGED history

SetSpeed(inputs) == \E new \in inputs : Setter("speed", set_speed(Self, new), new)

SetRadius(inputs) == \E new \in inputs : Setter("radius", set_radius(Self, new), new)

SetNoise(inputs) == \E new \in inputs : Setter("noise", set_noise(Self, new), new)

SetWeights(inputs) == \E new \in inputs : Setter("weights", set_weights(Self, new), new)

InitState ==
    \E reproducible \in BOOLEAN, entropy \in FreshSeeds :
        \E r \in {init_state(Self, reproducible, entropy)} :
        /\ Commit(r.self)
        /\ call' = [NoCall EXCEPT !.op = "init_state", !.reproducible = reproducible]
        /\ raised' = r.raised
        /\ pbar' = 0
        /\ result' = <<>>
        /\ history' = AfterInit(r.raised)

Step ==
    /\ current_step < MaxStep
    /\ \E r \in {step(Self)} :
        /\ Commit(r.self)
        /\ call' = [NoCall EXCEPT !.op = "step"]
        /\ raised' = r.raised
        /\ pbar' = 0
        /\ result' = <<>>
        /\ UNCHANGED history

Evolve ==
    \E steps \in 0..(MaxStep - current_step), track \in BOOLEAN,
       sink \in BOOLEAN :
      \E interval \in IF track THEN 1..MaxInterval ELSE {DefaultInterval} :
        \E r \in {evolve(Self, steps, track, interval, sink)} :
        /\ Commit(r.self)
        /\ call' = [NoCall EXCEPT !.op = "evolve", !.steps = steps, !.track = track,
                                  !.interval = interval, !.sink = sink]
        /\ raised' = r.raised
        /\ pbar' = r.updates
        /\ result' = <<>>
        /\ history' =
             [history EXCEPT
                !.recorded = @ \o ndarray([i \in 1..Len(r.wrote) |->
                                              <<r.wrote[i], interval>>]),
                !.high = IF track /\ r.self.current_step > current_step
                         THEN Max(@, r.self.current_step) ELSE @]

EvolveEnsemble ==
    \E steps \in 0..MaxSteps, size \in 0..MaxEnsemble :
      \E seeds \in [1..size -> FreshSeeds] :
        \E r \in {evolve_ensemble(Self, steps, seeds)} :
        /\ Commit(r.self)
        /\ call' = [NoCall EXCEPT !.op = "evolve_ensemble", !.steps = steps,
                                  !.size = size, !.sink = TRUE]
        /\ raised' = r.raised
        /\ pbar' = r.updates
        /\ result' = r.value
        /\ history' = IF r.reinit THEN FreshHistory ELSE history

(***************************************************************************)
(* The whole program: every call, from every constructed object.           *)
(***************************************************************************)
Init == Constructed(Lengths, Densities, SpeedInputs, NoiseInputs,
                    RadiusInputs, WeightsInputs)

Next ==
    \/ SetLength
    \/ SetDensity
    \/ SetSpeed(SpeedInputs)
    \/ SetRadius(RadiusInputs)
    \/ SetNoise(NoiseInputs)
    \/ SetWeights(WeightsInputs)
    \/ InitState
    \/ Step
    \/ Evolve
    \/ EvolveEnsemble

Spec == Init /\ [][Next]_vars

(***************************************************************************)
(* The vector setters alone, on every input, at every particle count from  *)
(* 1 to 6.                                                                 *)
(***************************************************************************)
InitSetters == Constructed(Lengths, Densities \cup {3}, {Scalar(1)}, {Scalar(0)},
                           {Scalar(1)}, {Scalar(1)})

NextSetters ==
    \/ SetSpeed(SpeedInputs)
    \/ SetRadius(RadiusInputs)
    \/ SetNoise(NoiseInputs)
    \/ SetWeights(WeightsInputs)

SpecSetters == InitSetters /\ [][NextSetters]_vars

(***************************************************************************)
(* Single steps of objects constructed with every kind of vector.          *)
(***************************************************************************)
InitStep == Constructed(Lengths, Densities, {Scalar(1), Iter(<<3, 1>>)},
                        {Scalar(0), Scalar(4)}, {Scalar(1), Iter(<<2, 1>>)},
                        {Scalar(1), Iter(<<2, 1>>)})

NextStep ==
    \/ InitState
    \/ Step

SpecStep == InitStep /\ [][NextStep]_vars

(***************************************************************************)
(* Objects constructed with scalars.                                       *)
(***************************************************************************)
InitConfig == Constructed(Lengths, Densities, {Scalar(1)}, {Scalar(4)},
                          {Scalar(1)}, {Scalar(1)})

(***************************************************************************)
(* Single steps between configuration calls: length and density change the *)
(* particle count under the vectors, a setter re-expands one vector.       *)
(***************************************************************************)
NextConfig ==
    \/ SetLength
    \/ SetDensity
    \/ SetSpeed({Scalar(3)})
    \/ SetRadius({Scalar(2)})
    \/ Step

SpecConfig == InitConfig /\ [][NextConfig]_vars

(***************************************************************************)
(* The simulation calls, on the objects of the smaller box: one or two     *)
(* particles.                                                              *)
(***************************************************************************)
InitRun == Constructed({2}, Densities, {Scalar(1)}, {Scalar(4)},
                       {Scalar(1)}, {Scalar(1)})

NextRun ==
    \/ InitState
    \/ Step
    \/ Evolve
    \/ EvolveEnsemble

SpecRun == InitRun /\ [][NextRun]_vars

(***************************************************************************)
(* Properties.                                                             *)
(***************************************************************************)
N == particles(Self)

VectorSetters == {"speed", "radius", "noise", "weights"}

Stored(name) ==
    CASE name = "speed" -> speed
      [] name = "radius" -> radius
      [] name = "noise" -> noise
      [] name = "weights" -> weights

HasNegative(s) == \E k \in 1..Len(s) : s[k] < 0

\* `stored` is s right-padded with its last element to length n, reversed
PadReversed(stored, s, n) ==
    /\ Len(stored) = n
    /\ \A k \in 0..(Len(s) - 1) : stored[n - k] = s[k + 1]
    /\ \A i \in 1..(n - Len(s)) : stored[i] = s[Len(s)]

InBox(pos, len) ==
    \A i \in 1..Len(pos) :
        /\ 0 <= pos[i][1] /\ pos[i][1] < len * Unit
        /\ 0 <= pos[i][2] /\ pos[i][2] < len * Unit

ArithmeticErrors ==
    {"ArithmeticError", "ZeroDivisionError", "FloatingPointError", "OverflowError"}

\* C1: a length or density assignment completes with the state fully
\* reinitialised: positions and headings have the new N entries,
\* current_step is 0 and trajectory is {0: order parameter}.
C1_Reinitialised ==
    call.op \in {"length", "density"} =>
        /\ raised = None
        /\ Len(positions) = N
        /\ Len(headings) = N
        /\ current_step = 0
        /\ trajectory = <<<<0, order_parameter(Self).value>>>>

\* C2: in every reachable state speed, radius, noise and weights each have
\* exactly N entries, N being the current particle count.
C2_VectorsHaveN ==
    /\ Len(speed) = N
    /\ Len(radius) = N
    /\ Len(noise) = N
    /\ Len(weights) = N

\* C3: a progress sink is advanced once per completed tick: `steps` times by
\* evolve(steps), ensemble_size * steps times by evolve_ensemble.
C3_SinkPerTick ==
    /\ (call.op = "evolve" /\ call.sink /\ raised = None) => pbar = call.steps
    /\ (call.op = "evolve_ensemble" /\ raised = None) => pbar = call.size * call.steps

\* C4 as stated: every setter, on every scalar or non-empty sequence of at
\* most N elements, stores the input right-padded with its last element and
\* reversed.
C4_Original ==
    (call.op \in VectorSetters /\ Len(call.new.items) >= 1
        /\ Len(call.new.items) <= N)
    => PadReversed(Stored(call.op), call.new.items, N)

\* C4 as amended: the same, except that the weights setter stores nothing
\* when the input holds a negative value.
C4_PadReverse ==
    (call.op \in VectorSetters /\ Len(call.new.items) >= 1
        /\ Len(call.new.items) <= N
        /\ ~(call.op = "weights" /\ HasNegative(call.new.items)))
    => /\ raised = None
       /\ PadReversed(Stored(call.op), call.new.items, N)

\* the docstring's example at N = 6: [4, 2, 3, 1] is stored as [1, 1, 1, 3, 2, 4]
C4_Witness ==
    /\ call.op = "noise"
    /\ call.new.items = <<4, 2, 3, 1>>
    /\ N = 6
    /\ noise = <<1, 1, 1, 3, 2, 4>>

\* C5: a setter given more than N elements, or the weights setter given a
\* negative value, raises ValueError and leaves the stored vectors and the
\* simulation state as they were.
C5_RejectedUnchanged ==
    [][(call'.op \in VectorSetters
         /\ (Len(call'.new.items) > N
              \/ (call'.op = "weights" /\ HasNegative(call'.new.items))))
       => (raised' = "ValueError" /\ UNCHANGED obj)]_vars

C5_Witness ==
    /\ call.op = "weights"
    /\ call.new.items = <<1, -1>>
    /\ N >= 2
    /\ raised = "ValueError"
    /\ \A i \in 1..Len(weights) : weights[i] >= 0

\* C6 as stated: evolve_ensemble with ensemble_size = 1 raises an arithmetic
\* error.
C6_Original ==
    (call.op = "evolve_ensemble" /\ call.size = 1) => raised \in ArithmeticErrors

\* C6 as amended: evolve_ensemble with ensemble_size = 1 raises no arithmetic
\* error; it returns the replica's order parameter as the mean and
\* not-a-number as the variance.
C6_ReturnsNaN ==
    (call.op = "evolve_ensemble" /\ call.size = 1) =>
        /\ raised \notin ArithmeticErrors
        /\ raised = None =>
            /\ Len(result) = 2
            /\ result[1] = [kind |-> "mean", of |-> <<order_parameter(Self).value>>]
            /\ result[2] = NaN

C6_Witness ==
    /\ call.op = "evolve_ensemble"
    /\ call.size = 1
    /\ call.steps = 1
    /\ raised = None
    /\ current_step = 1
    /\ result[2] = NaN

\* C7: a step that completes leaves every coordinate in [0, length) and
\* current_step one greater; a step that raises and the vector setters
\* leave current_step as it was.
C7_StepWraps ==
    [][/\ (call'.op = "step" /\ raised' = None) =>
            (InBox(positions', length') /\ current_step' = current_step + 1)
       /\ (call'.op = "step" /\ raised' # None) => current_step' = current_step
       /\ call'.op \in VectorSetters => current_step' = current_step]_vars

\* a completed step of a particle whose speed exceeds length and whose raw
\* displacement is negative
C7_Witness ==
    /\ call.op = "step"
    /\ raised = None
    /\ \E i \in 1..Len(positions) :
          /\ at(speed, i) > length
          /\ (cos(at(headings, i)) = -1 \/ sin(at(headings, i)) = -1)

\* C8: trajectory holds key 0 first; every other key was written by a
\* tracking evolve call, is a positive multiple of that call's interval and
\* is at most the highest current_step reached with tracking enabled; keys
\* are in strictly increasing order; untracked evolve and bare step calls
\* add no keys.
C8_Keys ==
    /\ Len(trajectory) >= 1
    /\ trajectory[1][1] = 0
    /\ \A i \in 1..(Len(trajectory) - 1) : trajectory[i][1] < trajectory[i + 1][1]
    /\ \A i \in 2..Len(trajectory) :
          /\ trajectory[i][1] <= history.high
          /\ \E k \in 1..Len(history.recorded) :
                history.recorded[k][1] = trajectory[i][1]
    /\ \A k \in 1..Len(history.recorded) :
          /\ history.recorded[k][1] > 0
          /\ history.recorded[k][1] % history.recorded[k][2] = 0
          /\ \E i \in 2..Len(trajectory) : trajectory[i][1] = history.recorded[k][1]

C8_NoKeys ==
    (call'.op = "step" \/ (call'.op = "evolve" /\ ~call'.track))
        => trajectory' = trajectory

C8_TrajectoryKeys == []C8_Keys /\ [][C8_NoKeys]_vars

\* a tracking evolve of interval 2 that started at step 0 and wrote key 2 only
C8_Witness ==
    /\ call.op = "evolve"
    /\ call.track
    /\ call.interval = 2
    /\ call.steps = 2
    /\ raised = None
    /\ Len(trajectory) = 2
    /\ trajectory[2][1] = 2

\* the squared distance between two points
Dist2(p, q) == (p[1] - q[1]) * (p[1] - q[1]) + (p[2] - q[2]) * (p[2] - q[2])

\* j is nearer to i than the radius of `whose`: of i itself ("row") or of j
\* ("column")
WithinRadius(i, j, whose) ==
    less_than(Dist2(positions[i], positions[j]),
              IF whose = "row" THEN radius[i] ELSE radius[j])

\* the headings a step leaves when particle j counts for particle i exactly
\* when WithinRadius(i, j, whose) holds
HeadingsBy(whose) ==
    LET draws == rng_random(rng, N)[1]
        Total(i, F) ==
            seq_sum(ndarray([j \in 1..N |->
                IF WithinRadius(i, j, whose)
                THEN weights[j] * ufunc(F, headings[j]) ELSE 0]))
    IN  ndarray([i \in 1..N |->
            arctan2(Total(i, "sin"), Total(i, "cos"))
                + noise_term(draws[i], noise[i])])

\* C9 as stated: the heading of j counts for the new heading of i iff
\* distance(i, j) < radius[i].
C9_Original ==
    [][(call'.op = "step" /\ raised' = None)
       => headings' = HeadingsBy("row")]_vars

\* C9 as amended: the heading of j counts for the new heading of i iff
\* distance(i, j) < radius[j], the radius of the contributing neighbour.
C9_NeighbourRadius ==
    [][(call'.op = "step" /\ raised' = None)
       => headings' = HeadingsBy("column")]_vars

\* where the particles were before the step that has just completed
PrevPositions ==
    [i \in 1..Len(positions) |->
        <<(positions[i][1] - at(speed, i) * cos(at(headings, i)) * Unit)
              % (length * Unit),
          (positions[i][2] - at(speed, i) * sin(at(headings, i)) * Unit)
              % (length * Unit)>>]

\* a completed step from positions where the relation was asymmetric:
\* i within radius[j] of j but not within its own radius[i]
C9_Witness ==
    /\ call.op = "step"
    /\ raised = None
    /\ Len(radius) = N
    /\ \E i, j \in 1..N :
          /\ less_than(Dist2(PrevPositions[i], PrevPositions[j]), radius[j])
          /\ ~less_than(Dist2(PrevPositions[i], PrevPositions[j]), radius[i])

\* C10: step is all-or-nothing: it completes with current_step advanced, or
\* it raises with headings, positions and current_step as they were.
C10_AllOrNothing ==
    [][call'.op = "step" =>
         \/ (raised' = None /\ current_step' = current_step + 1)
         \/ (raised' # None /\ headings' = headings /\ positions' = positions
                /\ current_step' = current_step)]_vars

====
